---- MODULE Spec2Model ----
(***************************************************************************)
(* Dead-tree detection workflow (LiubovD/thrird-chapter-workflow).         *)
(*                                                                         *)
(*   Spec         DetectDeadTrees.execute of the toolbox: validation, the  *)
(*                ten stages, the except handlers and the finally block.   *)
(*   SpecEval     the stand-alone scripts: final copy of the detection     *)
(*                stages, the two spatial joins, the six counts and the    *)
(*                two metric triples.                                      *)
(*   SpecMetrics  the metric lines of the scripts applied to counts drawn  *)
(*                from a bounded set.                                      *)
(*   SpecReclass  the reclassify stage applied to a bounded class raster.  *)
(*   SpecThreshold the reclassify and blue-threshold stages applied to a   *)
(*                raster of class values and NoData cells.                 *)
(*   SpecFilter   the two area selections of steps 8 to 10.                *)
(*   SpecBatch    the loop of zoom.py over the images of a folder.         *)
(***************************************************************************)
EXTENDS Integers, Sequences, FiniteSets, TLC

VARIABLES
    \* ---- DetectDeadTrees.execute
    cfg,            \* the parameters and the environment of one run
    pc,             \* position of execute
    fs,             \* the datasets that exist (a set of paths)
    intermediates,  \* the list `intermediates`
    messages,       \* what was sent to `messages`
    oplog,          \* the geoprocessing operations attempted, in order
    ext,            \* Spatial Analyst licence: checked out?, #check-outs, #check-ins,
                    \* and the calls of the finally block in the order made
    pending,        \* the exception in flight inside try/finally
    raised,         \* the exception execute raised to its caller
    deletion,       \* finally block: paths whose deletion was attempted / failed,
                    \* and the number of Delete calls per path
    \* ---- evaluation scripts
    script,         \* which script runs
    spc,            \* position of the script
    files,          \* feature classes of the workspace: name -> who wrote it
    finalWritten,   \* the name the detection stages wrote as final output
    joinRead,       \* the polygon feature class names the joins read, in order
    truth,          \* number of ground-truth points in Molly_deadtrees.shp
    clipped,        \* the points of Molly_points_clipped.shp
    polys,          \* the polygons the joins read: for each, the points it intersects
    tables,         \* join and selection outputs: name -> Join_Count of each row
    TP, FN, All_polygons, TP_2, FP, All_points,
    precision, recall, f1_score,
    precision_2, recall_2, f1_score_2,
    printed,        \* labels of the lines printed so far
    serr,           \* the error that stopped the script
    \* ---- reclassify stage
    number_classes, \* parameter 3 after defaulting
    classified,     \* the classified raster (cell -> class)
    dead_trees,     \* the reclassified raster
    blue_band,      \* the blue band of the input raster (cell -> value)
    extracted,      \* the reclassified raster extracted by the blue mask
    rpc,            \* position of the reclassify run
    \* ---- the two size filters
    min_area,       \* parameter 4 after defaulting
    min_buffer_area,\* parameter 6 after defaulting
    areas,          \* feature classes: name -> Shape_Area of each row
    fpc,            \* position of the filter run
    \* ---- batch loop of zoom.py
    all_files,      \* os.listdir(workspace)
    jp2_index,      \* how many elements of jp2_files the loop has taken
    bip,            \* index of the next statement of the loop body
    wsfiles,        \* datasets and raster objects: name -> who wrote it
    lastop,         \* the statement executed last
    bpc             \* position of the batch script

execVars == <<cfg, pc, fs, intermediates, messages, oplog, ext, pending, raised, deletion>>
countVars == <<TP, FN, All_polygons, TP_2, FP, All_points>>
metricVars == <<precision, recall, f1_score, precision_2, recall_2, f1_score_2>>
geoVars == <<truth, clipped, polys, tables>>
evalVars == <<script, spc, files, finalWritten, joinRead, geoVars, countVars, metricVars,
              printed, serr>>
reclassVars == <<number_classes, classified, dead_trees, blue_band, extracted, rpc>>
filterVars == <<min_area, min_buffer_area, areas, fpc>>
batchVars == <<all_files, jp2_index, bip, wsfiles, lastop, bpc>>
vars == <<execVars, evalVars, reclassVars, filterVars, batchVars>>

(***************************************************************************)
(* Bounds                                                                  *)
(***************************************************************************)
MaxDelFailures == 1   \* deletions that may fail in one cleanup
MaxPolys == 3         \* detected polygons in a feature class
MaxPoints == 2        \* ground-truth points
MaxCount == 8         \* counts drawn for the metric lines
MaxClasses == 11      \* largest configured number of classes
MaxCells == 2         \* cells of the class raster
MaxArea == 2          \* largest small area and threshold drawn
MaxRegions == 3       \* rows of a polygon feature class in the filter run
MaxImages == 2        \* JP2 files in the input folder

(***************************************************************************)
(* Sequence helpers                                                        *)
(***************************************************************************)
Range(s) == {s[i] : i \in DOMAIN s}

RECURSIVE SumSeq(_)
SumSeq(s) == IF s = <<>> THEN 0 ELSE Head(s) + SumSeq(Tail(s))

None == <<>>   \* a Python name that has not been assigned

(***************************************************************************)
(* DetectDeadTrees.execute                                                 *)
(***************************************************************************)
\* A dataset path: directory (workspace or elsewhere), stem and extension.
InWorkspace(stem, e) == [ws |-> TRUE, stem |-> stem, ext |-> e]
mask_layer == [ws |-> FALSE, stem |-> "mask_layer", ext |-> ""]

\* _tmp(name): name is [stem, ext]; every caller passes a name without extension.
_tmp(name) ==
    IF cfg.workspaceType = "FileSystem"
    THEN IF name.ext = ".shp"
         THEN InWorkspace(name.stem, name.ext)
         ELSE InWorkspace(name.stem, name.ext \o ".tif")
    ELSE InWorkspace(name.stem, name.ext)

Name(stem) == [stem |-> stem, ext |-> ""]

\* os.path.splitext(_tmp(name))[0] + ".shp"
ShpOf(path) == [path EXCEPT !.ext = ".shp"]

\* parameters[0] and parameters[7]: paths the caller chooses.  "elsewhere" is a
\* path outside the workspace; the other choice is a path inside the workspace
\* that carries the name one of the stages writes to.
InputPaths == {"elsewhere", "classified"}
OutputPaths == {"elsewhere", "dead_trees_selected"}
input_raster ==
    IF cfg.input_path = "elsewhere"
    THEN [ws |-> FALSE, stem |-> "input_raster", ext |-> ""]
    ELSE _tmp(Name("classified"))
output_features ==
    IF cfg.output_path = "elsewhere"
    THEN [ws |-> FALSE, stem |-> "output_features", ext |-> ""]
    ELSE ShpOf(_tmp(Name("dead_trees_selected")))

aerial_image == IF cfg.mask_layer = "given" THEN _tmp(Name("aerial_image")) ELSE input_raster
classified_raster == _tmp(Name("classified"))
dead_trees_raster == _tmp(Name("dead_trees"))
blue_mask == _tmp(Name("blue_mask"))
extracted_raster == _tmp(Name("extracted_raster_one_band"))
filtered_raster == _tmp(Name("filtered"))
expanded_raster == _tmp(Name("expanded"))
shrinked_raster == _tmp(Name("shrinked"))
grouped_raster == _tmp(Name("region_group"))
dead_trees_vector == ShpOf(_tmp(Name("dead_trees_vector")))
dead_trees_selected == ShpOf(_tmp(Name("dead_trees_selected")))
buffered_trees == ShpOf(_tmp(Name("buffered_trees")))
dissolved_buffer == ShpOf(_tmp(Name("dissolved_buffer")))
trees_buffer_processed == ShpOf(_tmp(Name("trees_buffer_processed")))

\* The value of each name of execute that holds a dataset path.
PathOf(sym) ==
    CASE sym = "input_raster" -> input_raster
      [] sym = "mask_layer" -> mask_layer
      [] sym = "output_features" -> output_features
      [] sym = "aerial_image" -> aerial_image
      [] sym = "classified_raster" -> classified_raster
      [] sym = "dead_trees_raster" -> dead_trees_raster
      [] sym = "blue_mask" -> blue_mask
      [] sym = "extracted_raster" -> extracted_raster
      [] sym = "filtered_raster" -> filtered_raster
      [] sym = "expanded_raster" -> expanded_raster
      [] sym = "shrinked_raster" -> shrinked_raster
      [] sym = "grouped_raster" -> grouped_raster
      [] sym = "dead_trees_vector" -> dead_trees_vector
      [] sym = "dead_trees_selected" -> dead_trees_selected
      [] sym = "buffered_trees" -> buffered_trees
      [] sym = "dissolved_buffer" -> dissolved_buffer
      [] sym = "trees_buffer_processed" -> trees_buffer_processed
Paths(syms) == {PathOf(sym) : sym \in syms}

\* The artifact names the spec declares as ephemeral.
DeclaredIntermediates ==
    {"aerial_image", "classified", "dead_trees", "blue_mask",
     "extracted_raster_one_band", "filtered", "expanded", "shrinked",
     "region_group", "dead_trees_vector", "dead_trees_selected",
     "buffered_trees", "dissolved_buffer", "trees_buffer_processed"}

\* Statements of the try block.  A tool is a geoprocessing call that reads
\* datasets and, when it succeeds, writes one (or none); it may fail.  reads
\* and writes hold the names of execute passed to the call.
Tool(name, stage, reads, writes) ==
    [kind |-> "tool", name |-> name, stage |-> stage, reads |-> reads,
     writes |-> writes, level |-> "", paths |-> <<>>]
\* A call inside the inner try/except of step 5: it either succeeds or its
\* exception is caught on the spot.
Succeeded(name, stage, reads) ==
    [kind |-> "succeeded", name |-> name, stage |-> stage, reads |-> reads,
     writes |-> {}, level |-> "", paths |-> <<>>]
CaughtFailure(name, stage, reads) ==
    [kind |-> "caught", name |-> name, stage |-> stage, reads |-> reads,
     writes |-> {}, level |-> "", paths |-> <<>>]
Msg(level, text, stage) ==
    [kind |-> "msg", name |-> text, stage |-> stage, reads |-> {},
     writes |-> {}, level |-> level, paths |-> <<>>]
Track(paths, stage) ==
    [kind |-> "track", name |-> "", stage |-> stage, reads |-> {},
     writes |-> {}, level |-> "", paths |-> paths]

Stage1 ==
    <<Msg("info", "Step 1/10", 1)>> \o
    (IF cfg.mask_layer = "given"
     THEN <<Msg("info", "Forest mask provided", 1),
            Tool("ExtractByMask", 1, {"input_raster", "mask_layer"}, {"aerial_image"}),
            Track(<<aerial_image>>, 1)>>
     ELSE <<Msg("warning", "No forest mask provided", 1)>>)

Stage2 ==
    <<Msg("info", "Step 2/10", 2),
      Tool("IsoClusterUnsupervisedClassification", 2, {"aerial_image"}, {"classified_raster"}),
      Track(<<classified_raster>>, 2)>>

Stage3 == <<Msg("info", "Step 3/10", 3)>>

Stage4 ==
    <<Msg("info", "Step 4/10", 4),
      Tool("Reclassify", 4, {"classified_raster"}, {"dead_trees_raster"}),
      Track(<<dead_trees_raster>>, 4)>>

\* bandOk: whether Raster("<input>/Band_<i>") can be opened.
Stage5(bandOk) ==
    <<Msg("info", "Step 5/10", 5)>> \o
    (IF bandOk
     THEN <<Succeeded("Raster(Band)", 5, {"input_raster"})>>
     ELSE <<CaughtFailure("Raster(Band)", 5, {"input_raster"}),
            Tool("Raster(full)", 5, {"input_raster"}, {}),
            Msg("warning", "Could not read a specific band path", 5)>>) \o
    <<Tool("Con", 5, {"input_raster"}, {"blue_mask"}),
      Track(<<blue_mask>>, 5),
      Tool("ExtractByMask", 5, {"dead_trees_raster", "blue_mask"}, {"extracted_raster"}),
      Track(<<extracted_raster>>, 5)>>

\* A majority filter applied to the reclassified raster instead of the
\* blue-masked one.
Stage6FromDeadTrees ==
    <<Msg("info", "Step 6/10", 6),
      Tool("MajorityFilter", 6, {"dead_trees_raster"}, {"filtered_raster"}),
      Track(<<filtered_raster>>, 6)>>

Stage6 ==
    <<Msg("info", "Step 6/10", 6),
      Tool("MajorityFilter", 6, {"extracted_raster"}, {"filtered_raster"}),
      Track(<<filtered_raster>>, 6)>>

Stage7 ==
    <<Msg("info", "Step 7/10", 7),
      Tool("Expand", 7, {"filtered_raster"}, {"expanded_raster"}),
      Track(<<expanded_raster>>, 7),
      Tool("Shrink", 7, {"expanded_raster"}, {"shrinked_raster"}),
      Track(<<shrinked_raster>>, 7)>>

\* hasArea: whether the polygon table already has a Shape_Area field.
Stage8(hasArea) ==
    <<Msg("info", "Step 8/10", 8),
      Tool("RegionGroup", 8, {"shrinked_raster"}, {"grouped_raster"}),
      Track(<<grouped_raster>>, 8),
      Tool("RasterToPolygon", 8, {"grouped_raster"}, {"dead_trees_vector"}),
      Tool("ListFields", 8, {"dead_trees_vector"}, {})>> \o
    (IF hasArea THEN <<>>
     ELSE <<Tool("AddField", 8, {"dead_trees_vector"}, {"dead_trees_vector"})>>) \o
    <<Tool("CalculateField", 8, {"dead_trees_vector"}, {"dead_trees_vector"}),
      Tool("Select", 8, {"dead_trees_vector"}, {"dead_trees_selected"}),
      Track(<<dead_trees_vector, dead_trees_selected>>, 8)>>

Stage9(hasArea) ==
    <<Msg("info", "Step 9/10", 9),
      Tool("Buffer", 9, {"dead_trees_selected"}, {"buffered_trees"}),
      Track(<<buffered_trees>>, 9),
      Tool("Dissolve", 9, {"buffered_trees"}, {"dissolved_buffer"}),
      Tool("ListFields", 9, {"dissolved_buffer"}, {})>> \o
    (IF hasArea THEN <<>>
     ELSE <<Tool("AddField", 9, {"dissolved_buffer"}, {"dissolved_buffer"})>>) \o
    <<Tool("CalculateField", 9, {"dissolved_buffer"}, {"dissolved_buffer"}),
      Track(<<dissolved_buffer>>, 9)>>

\* A final copy taken from the dissolved buffers instead of the selected ones.
Stage10CopiesUnselected ==
    <<Msg("info", "Step 10/10", 10),
      Tool("Select", 10, {"dissolved_buffer"}, {"trees_buffer_processed"}),
      Tool("CopyFeatures", 10, {"dissolved_buffer"}, {"output_features"}),
      Msg("info", "Done!", 10),
      Msg("info", "Suggestions", 10)>>

Stage10 ==
    <<Msg("info", "Step 10/10", 10),
      Tool("Select", 10, {"dissolved_buffer"}, {"trees_buffer_processed"}),
      Tool("CopyFeatures", 10, {"trees_buffer_processed"}, {"output_features"}),
      Msg("info", "Done!", 10),
      Msg("info", "Suggestions", 10)>>

\* The state the try block works on.
TryState == [fs |-> fs, intermediates |-> intermediates, messages |-> messages,
             oplog |-> oplog, failed |-> FALSE]

\* error: "" when the call succeeded, else the type of the exception it raised;
\* caught: the exception was handled by the inner try/except.
LogEntry(ins, error, caught) ==
    [name |-> ins.name, stage |-> ins.stage, reads |-> ins.reads,
     writes |-> ins.writes, error |-> error, caught |-> caught]

\* Run statements in order; the tool at index failAt (0: none) raises an
\* exception of the given type.
RECURSIVE RunFrom(_, _, _, _, _)
RunFrom(instrs, i, failAt, type, st) ==
    IF i > Len(instrs) THEN st
    ELSE LET ins == instrs[i] IN
         IF ins.kind = "msg"
         THEN RunFrom(instrs, i + 1, failAt, type,
                      [st EXCEPT !.messages = Append(@, [level |-> ins.level, text |-> ins.name])])
         ELSE IF ins.kind = "track"
         THEN RunFrom(instrs, i + 1, failAt, type,
                      [st EXCEPT !.intermediates = @ \o ins.paths])
         ELSE IF ins.kind = "caught"
         THEN RunFrom(instrs, i + 1, failAt, type,
                      [st EXCEPT !.oplog = Append(@, LogEntry(ins, "Exception", TRUE))])
         ELSE IF i = failAt
         THEN [st EXCEPT !.oplog = Append(@, LogEntry(ins, type, FALSE)),
                         !.failed = TRUE]
         ELSE RunFrom(instrs, i + 1, failAt, type,
                      [st EXCEPT !.oplog = Append(@, LogEntry(ins, "", FALSE)),
                                 !.fs = @ \cup Paths(ins.writes)])

ToolIndexes(instrs) == {i \in DOMAIN instrs : instrs[i].kind = "tool"}

ErrorTypes == {"ExecuteError", "Exception"}
NoError == [type |-> "none", op |-> "", stage |-> 0]

\* except arcpy.ExecuteError / except Exception: the message added before `raise`.
HandlerMessage(err) ==
    IF err.type = "ExecuteError"
    THEN [level |-> "error", text |-> "GetMessages(2)"]
    ELSE [level |-> "error", text |-> "Unexpected error"]

\* A handler that logs unexpected errors without re-raising them.
HandlerSwallowsUnexpected(err) == err.type = "ExecuteError"

\* Both handlers end in a bare `raise`: the exception stays in flight.
HandlerReraises(err) == TRUE

\* Position of execute at the start of stage k.
StagePc(k) == <<"step1", "step2", "step3", "step4", "step5",
                "step6", "step7", "step8", "step9", "step10">>[k]

\* One stage of the try block, with every way one of its tools can fail.
RunStage(k, instrs) ==
    /\ pc = StagePc(k)
    /\ \E failAt \in {0} \cup ToolIndexes(instrs), type \in ErrorTypes :
          LET st == RunFrom(instrs, 1, failAt, type, TryState)
              err == [type |-> type, op |-> instrs[failAt].name, stage |-> k]
          IN  /\ (failAt = 0 => type = "ExecuteError")
              /\ fs' = st.fs
              /\ intermediates' = st.intermediates
              /\ oplog' = st.oplog
              /\ IF st.failed
                 THEN /\ messages' = Append(st.messages, HandlerMessage(err))
                      /\ pending' = IF HandlerReraises(err) THEN err ELSE NoError
                      /\ pc' = "finally"
                 ELSE /\ messages' = st.messages
                      /\ pending' = pending
                      /\ pc' = IF k = 10 THEN "finally" ELSE StagePc(k + 1)
    /\ UNCHANGED <<cfg, ext, raised, deletion, evalVars, reclassVars, filterVars, batchVars>>

\* Validation that forgets to check the mask.
ValidationErrorMaskUnchecked ==
    IF ~cfg.input_exists THEN "Input raster does not exist."
    ELSE IF ~cfg.workspace_exists THEN "Workspace does not exist."
    ELSE IF cfg.ext_status /= "Available"
    THEN "Spatial Analyst extension is not available."
    ELSE ""

\* Validation and check-out (before the try block): a failed check raises
\* ExecuteError; CheckOutExtension itself may raise, outside the try block.
ValidationError ==
    IF ~cfg.input_exists THEN "Input raster does not exist."
    ELSE IF cfg.mask_layer /= "none" /\ ~(cfg.mask_layer = "given" /\ cfg.mask_exists)
    THEN "Forest mask layer path is invalid or not found."
    ELSE IF ~cfg.workspace_exists THEN "Workspace does not exist."
    ELSE IF cfg.ext_status /= "Available"
    THEN "Spatial Analyst extension is not available."
    ELSE ""

Validate ==
    /\ pc = "start"
    /\ IF ValidationError /= ""
       THEN /\ raised' = [type |-> "ExecuteError", op |-> ValidationError, stage |-> 0]
            /\ pc' = "raised"
            /\ ext' = ext
       ELSE \E checkOutOk \in BOOLEAN :
               IF checkOutOk
               THEN /\ ext' = [ext EXCEPT !.out = TRUE, !.checkouts = @ + 1]
                    /\ pc' = StagePc(1)
                    /\ raised' = raised
               ELSE /\ raised' = [type |-> "Exception", op |-> "CheckOutExtension",
                                  stage |-> 0]
                    /\ pc' = "raised"
                    /\ ext' = ext
    /\ UNCHANGED <<cfg, fs, intermediates, messages, oplog, pending, deletion,
                   evalVars, reclassVars, filterVars, batchVars>>

Step1 == RunStage(1, Stage1)
Step2 == RunStage(2, Stage2)
Step3 == RunStage(3, Stage3)
Step4 == RunStage(4, Stage4)
Step5 == \E bandOk \in BOOLEAN : RunStage(5, Stage5(bandOk))
Step6 == RunStage(6, Stage6)
Step7 == RunStage(7, Stage7)
Step8 == \E hasArea \in BOOLEAN : RunStage(8, Stage8(hasArea))
Step9 == \E hasArea \in BOOLEAN : RunStage(9, Stage9(hasArea))
Step10 == RunStage(10, Stage10)

\* finally: the paths the loop visits.
CleanupPaths == Range(intermediates)

\* A loop whose first failing Delete ends it.
DeleteCallsUntilFailure(failing) ==
    [p \in (IF failing = {} THEN CleanupPaths \cap fs ELSE failing) |-> 1]

\* finally: the Delete calls made, given the paths whose Delete raises: each
\* call sits in its own try/except, so the loop visits every element of
\* set(intermediates) and calls Delete on each one that exists.
DeleteCalls(failing) == [p \in CleanupPaths \cap fs |-> 1]

\* A cleanup in one try/except: the first failing Delete ends it, check-in
\* included.
CleanupEventsStopAtFailure(failing) ==
    IF failing = {}
    THEN [i \in 1..Cardinality(DOMAIN DeleteCalls(failing)) |-> "Delete"]
         \o <<"CheckInExtension">>
    ELSE <<"Delete">>

\* finally: the calls made, in order: the Delete calls of the loop, then
\* CheckInExtension, whichever of the Delete calls fail.
CleanupEvents(failing) ==
    [i \in 1..Cardinality(DOMAIN DeleteCalls(failing)) |-> "Delete"]
    \o <<"CheckInExtension">>

CheckIns(events) == Cardinality({i \in DOMAIN events : events[i] = "CheckInExtension"})

\* finally: delete each tracked path that exists (failures swallowed), then
\* check the extension in (failure swallowed); then return or re-raise.
Finally ==
    /\ pc = "finally"
    /\ \E failing \in SUBSET (CleanupPaths \cap fs), checkInOk \in BOOLEAN :
          /\ Cardinality(failing) <= MaxDelFailures
          /\ LET calls == DeleteCalls(failing) IN
                /\ fs' = fs \ (DOMAIN calls \ failing)
                /\ deletion' = [attempted |-> DOMAIN calls, failed |-> failing,
                                calls |-> calls]
          /\ LET events == CleanupEvents(failing) IN
                ext' = [ext EXCEPT !.cleanup = events,
                                   !.checkins = @ + CheckIns(events),
                                   !.out = IF checkInOk /\ CheckIns(events) > 0
                                           THEN FALSE ELSE @]
    /\ raised' = pending
    /\ pc' = IF pending = NoError THEN "returned" ELSE "raised"
    /\ UNCHANGED <<cfg, intermediates, messages, oplog, pending, evalVars, reclassVars, filterVars, batchVars>>

\* The datasets that exist before execute is called.
InitialDatasets ==
    (IF cfg.input_exists THEN {input_raster} ELSE {})
    \cup (IF cfg.mask_exists THEN {mask_layer} ELSE {})

ExecIdle ==
    /\ cfg = [input_exists |-> TRUE, mask_layer |-> "none", mask_exists |-> FALSE,
              workspace_exists |-> TRUE, ext_status |-> "Available",
              workspaceType |-> "FileSystem",
              input_path |-> "elsewhere", output_path |-> "elsewhere"]
    /\ pc = "idle"
    /\ fs = {}
    /\ intermediates = <<>>
    /\ messages = <<>>
    /\ oplog = <<>>
    /\ ext = [out |-> FALSE, checkouts |-> 0, checkins |-> 0, cleanup |-> <<>>]
    /\ pending = NoError
    /\ raised = NoError
    /\ deletion = [attempted |-> {}, failed |-> {}, calls |-> <<>>]

EvalIdle ==
    /\ script = "none"
    /\ spc = "idle"
    /\ files = <<>>
    /\ finalWritten = ""
    /\ joinRead = <<>>
    /\ truth = 0
    /\ clipped = {}
    /\ polys = <<>>
    /\ tables = <<>>
    /\ TP = 0 /\ FN = 0 /\ All_polygons = 0
    /\ TP_2 = 0 /\ FP = 0 /\ All_points = 0
    /\ precision = None /\ recall = None /\ f1_score = None
    /\ precision_2 = None /\ recall_2 = None /\ f1_score_2 = None
    /\ printed = <<>>
    /\ serr = "none"

ReclassIdle ==
    /\ number_classes = 0
    /\ classified = <<>>
    /\ dead_trees = <<>>
    /\ blue_band = <<>>
    /\ extracted = <<>>
    /\ rpc = "idle"

FilterIdle ==
    /\ min_area = 0
    /\ min_buffer_area = 0
    /\ areas = <<>>
    /\ fpc = "idle"

NoOp == [line |-> 0, tool |-> "", image |-> 0, sources |-> <<>>, writes |-> {},
         error |-> ""]

BatchIdle ==
    /\ all_files = <<>>
    /\ jp2_index = 0
    /\ bip = 0
    /\ wsfiles = <<>>
    /\ lastop = NoOp
    /\ bpc = "idle"

Init ==
    /\ cfg \in [input_exists : BOOLEAN,
                mask_layer : {"none", "blank", "given"},
                mask_exists : BOOLEAN,
                workspace_exists : BOOLEAN,
                ext_status : {"Available", "Unavailable"},
                workspaceType : {"FileSystem", "LocalDatabase"},
                input_path : InputPaths,
                output_path : OutputPaths]
    /\ (cfg.mask_layer /= "given" => ~cfg.mask_exists)
    /\ pc = "start"
    /\ fs = InitialDatasets
    /\ intermediates = <<>>
    /\ messages = <<>>
    /\ oplog = <<>>
    /\ ext = [out |-> FALSE, checkouts |-> 0, checkins |-> 0, cleanup |-> <<>>]
    /\ pending = NoError
    /\ raised = NoError
    /\ deletion = [attempted |-> {}, failed |-> {}, calls |-> <<>>]
    /\ EvalIdle
    /\ ReclassIdle
    /\ FilterIdle
    /\ BatchIdle

Next ==
    \/ Validate
    \/ Step1 \/ Step2 \/ Step3 \/ Step4 \/ Step5
    \/ Step6 \/ Step7 \/ Step8 \/ Step9 \/ Step10
    \/ Finally

Spec == Init /\ [][Next]_vars

(***************************************************************************)
(* Evaluation scripts: code_for_dead_trees_detection.py ("detection"),     *)
(* zoom.py ("zoom", one pass of the loop body) and the "no blue mask"      *)
(* script appended to enhanced_toolbox.py ("noblue").                      *)
(***************************************************************************)
Scripts == {"detection", "zoom", "noblue"}

\* out_rast of the final CopyFeatures of the detection stages.
FinalOut(s) ==
    IF s = "detection" THEN "dead_trees_final_12.shp"
    ELSE IF s = "zoom" THEN "dead_trees_final_{file_name_without_extension}.shp"
    ELSE "dead_trees_final_no_blue.shp"

\* target_feature of the first spatial join.
JoinTargetA(s) ==
    IF s = "detection" THEN "dead_trees_final.shp"
    ELSE IF s = "zoom" THEN "dead_trees_final_{file_name_without_extension}.shp"
    ELSE "dead_trees_final_no_blue.shp"

\* join_feature of the second spatial join.
JoinFeatureB(s) ==
    IF s = "detection" THEN "dead_trees_final.shp"
    ELSE IF s = "zoom" THEN "dead_trees_final_{file_name_without_extension}.shp"
    ELSE "dead_trees_final_no_blue.shp"

input_Molly_points == "Molly_deadtrees.shp"
output_clipped == "Molly_points_clipped.shp"

Suffixed(s, stem, e) == IF s = "noblue" THEN stem \o "_no_blue" \o e ELSE stem \o e
polygons_to_points(s) == Suffixed(s, "polygons_to_points", ".shp")
points_to_polygons(s) == Suffixed(s, "points_to_polygons", ".shp")
selected_polygons_to_points(s) == Suffixed(s, "selected_polygons_to_points", "")
selected_points_to_polygons(s) == Suffixed(s, "selected_points_to_polygons", "")

\* overwriteOutput = True: writing a name creates or replaces it.
Write(f, name, value) ==
    [n \in DOMAIN f \cup {name} |-> IF n = name THEN value ELSE f[n]]

\* A polygon is described by the set of clipped points it intersects; a
\* feature class lists its polygons in a canonical order.
Code(S) == SumSeq([p \in 1..(MaxPoints + 1) |-> IF p \in S THEN 2 ^ (p - 1) ELSE 0])
PolygonSets(pts) ==
    {P \in UNION {[1..k -> SUBSET pts] : k \in 0..MaxPolys} :
        \A i \in DOMAIN P : i > 1 => Code(P[i - 1]) <= Code(P[i])}

\* arcpy.analysis.SpatialJoin(target, join, out) with the defaults
\* (JOIN_ONE_TO_ONE, KEEP_ALL, INTERSECT): one row per target feature whose
\* Join_Count is the number of join features intersecting it.
JoinPolygonsToPoints(P, pts) == [i \in DOMAIN P |-> Cardinality(P[i] \cap pts)]
\* A second join whose join features are the points themselves.
JoinPointsToThemselves(pts, P) == [p \in 1..Cardinality(pts) |-> 1]

JoinPointsToPolygons(pts, P) ==
    [p \in 1..Cardinality(pts) |-> Cardinality({i \in DOMAIN P : p \in P[i]})]

\* Select_analysis(table, out, '"Join_Count" <> 0')
IsMatched(c) == c /= 0
SelectMatched(rows) == SelectSeq(rows, IsMatched)

\* int(arcpy.GetCount_management(table).getOutput(0))
GetCount(rows) == Len(rows)

(***************************************************************************)
(* Python numbers as exact rationals <<numerator, denominator>>; the       *)
(* rounding of float arithmetic is not modelled.  <<0, 0>> stands for a    *)
(* raised ZeroDivisionError.                                               *)
(***************************************************************************)
RECURSIVE GCD(_, _)
GCD(a, b) == IF b = 0 THEN a ELSE GCD(b, a % b)

Abs(x) == IF x < 0 THEN -x ELSE x
Norm(n, d) ==
    LET g == GCD(Abs(n), Abs(d)) IN
    IF d < 0 THEN <<(-n) \div g, (-d) \div g>> ELSE <<n \div g, d \div g>>

ZeroDivisionError == <<0, 0>>
IsError(x) == x[2] = 0
Whole(k) == <<k, 1>>
Add(x, y) == Norm(x[1] * y[2] + y[1] * x[2], x[2] * y[2])
Mul(x, y) == Norm(x[1] * y[1], x[2] * y[2])

\* Division that yields 0 for a zero divisor.
DivGuarded(x, y) == IF y[1] = 0 THEN Whole(0) ELSE Norm(x[1] * y[2], x[2] * y[1])

\* x / y
Div(x, y) == IF y[1] = 0 THEN ZeroDivisionError ELSE Norm(x[1] * y[2], x[2] * y[1])

\* precision = TP / (TP + FP)
PrecisionOf(tp, fp) == Div(Whole(tp), Whole(tp + fp))

\* Recall with the positives left out of the denominator.
RecallOverMisses(tp, fn) == Div(Whole(tp), Whole(fn))

\* recall = TP / (TP + FN)
RecallOf(tp, fn) == Div(Whole(tp), Whole(tp + fn))

\* F1 without the factor 2.
F1Halved(p, r) == Div(Mul(p, r), Add(p, r))

\* f1_score = 2 * (precision * recall) / (precision + recall)
F1Of(p, r) == Div(Mul(Whole(2), Mul(p, r)), Add(p, r))

EvalUnchanged == UNCHANGED <<execVars, reclassVars, filterVars, batchVars>>

Stop(error) == /\ spc' = "error" /\ serr' = error

\* The detection stages, ending in CopyFeatures(in_rast, out_rast); a failing
\* tool stops the script.
DetectionStages ==
    /\ spc = "detect"
    /\ \E ok \in BOOLEAN :
          IF ok
          THEN /\ files' = Write(files, FinalOut(script), "run")
               /\ finalWritten' = FinalOut(script)
               /\ spc' = "copypoints"
               /\ serr' = serr
          ELSE /\ Stop("ExecuteError")
               /\ UNCHANGED <<files, finalWritten>>
    /\ UNCHANGED <<script, joinRead, geoVars, countVars, metricVars, printed>>
    /\ EvalUnchanged

\* env.extent = <clipped image>; CopyFeatures(input_Molly_points, output_clipped):
\* the points inside the extent are copied.
CopyPoints ==
    /\ spc = "copypoints"
    /\ \E m \in 0..truth :
          /\ clipped' = 1..m
          /\ files' = Write(files, output_clipped, "run")
    /\ spc' = "joinA"
    /\ UNCHANGED <<script, finalWritten, joinRead, truth, polys, tables, countVars,
                   metricVars, printed, serr>>
    /\ EvalUnchanged

\* SpatialJoin(target = polygons, join = points) -> polygons_to_points
SpatialJoinA ==
    /\ spc = "joinA"
    /\ joinRead' = Append(joinRead, JoinTargetA(script))
    /\ IF JoinTargetA(script) \in DOMAIN files
       THEN \E P \in PolygonSets(clipped) :
               /\ polys' = P
               /\ tables' = Write(tables, polygons_to_points(script),
                                  JoinPolygonsToPoints(P, clipped))
               /\ files' = Write(files, polygons_to_points(script), "run")
               /\ spc' = "joinB"
               /\ serr' = serr
       ELSE /\ Stop("ExecuteError")
            /\ UNCHANGED <<polys, tables, files>>
    /\ UNCHANGED <<script, finalWritten, truth, clipped, countVars, metricVars, printed>>
    /\ EvalUnchanged

\* SpatialJoin(target = points, join = polygons) -> points_to_polygons
SpatialJoinB ==
    /\ spc = "joinB"
    /\ joinRead' = Append(joinRead, JoinFeatureB(script))
    /\ IF JoinFeatureB(script) \in DOMAIN files
       THEN /\ tables' = Write(tables, points_to_polygons(script),
                               JoinPointsToPolygons(clipped, polys))
            /\ files' = Write(files, points_to_polygons(script), "run")
            /\ spc' = "countA"
            /\ serr' = serr
       ELSE /\ Stop("ExecuteError")
            /\ UNCHANGED <<tables, files>>
    /\ UNCHANGED <<script, finalWritten, truth, clipped, polys, countVars, metricVars,
                   printed>>
    /\ EvalUnchanged

\* The same, with the total taken from the other join's table.
CountPolygonsOtherTable ==
    /\ spc = "countA"
    /\ LET selected == SelectMatched(tables[polygons_to_points(script)]) IN
          /\ tables' = Write(tables, selected_polygons_to_points(script), selected)
          /\ files' = Write(files, selected_polygons_to_points(script), "run")
          /\ TP' = GetCount(selected)
          /\ All_polygons' = GetCount(tables[points_to_polygons(script)])
          /\ FN' = All_polygons' - TP'
    /\ spc' = "countB"
    /\ UNCHANGED <<script, finalWritten, joinRead, truth, clipped, polys,
                   TP_2, FP, All_points, metricVars, printed, serr>>
    /\ EvalUnchanged

\* Select Join_Count <> 0 from polygons_to_points; TP, All_polygons, FN.
CountPolygons ==
    /\ spc = "countA"
    /\ LET selected == SelectMatched(tables[polygons_to_points(script)]) IN
          /\ tables' = Write(tables, selected_polygons_to_points(script), selected)
          /\ files' = Write(files, selected_polygons_to_points(script), "run")
          /\ TP' = GetCount(selected)
          /\ All_polygons' = GetCount(tables[polygons_to_points(script)])
          /\ FN' = All_polygons' - TP'
    /\ spc' = "countB"
    /\ UNCHANGED <<script, finalWritten, joinRead, truth, clipped, polys,
                   TP_2, FP, All_points, metricVars, printed, serr>>
    /\ EvalUnchanged

\* Select Join_Count <> 0 from points_to_polygons; TP_2, All_points, FP.
CountPoints ==
    /\ spc = "countB"
    /\ LET selected == SelectMatched(tables[points_to_polygons(script)]) IN
          /\ tables' = Write(tables, selected_points_to_polygons(script), selected)
          /\ files' = Write(files, selected_points_to_polygons(script), "run")
          /\ TP_2' = GetCount(selected)
          /\ All_points' = GetCount(tables[points_to_polygons(script)])
          /\ FP' = All_points' - TP_2'
    /\ spc' = "printcounts"
    /\ UNCHANGED <<script, finalWritten, joinRead, truth, clipped, polys,
                   TP, FN, All_polygons, metricVars, printed, serr>>
    /\ EvalUnchanged

CountLabels == <<"TP", "FN", "All_polygons", "TP_2", "FP", "All_points">>

\* The six count lines (zoom.py prints the image label first).
PrintCounts ==
    /\ spc = "printcounts"
    /\ printed' = printed \o (IF script = "zoom" THEN <<"Image Label">> ELSE <<>>)
                          \o CountLabels
    /\ spc' = "precision"
    /\ UNCHANGED <<script, files, finalWritten, joinRead, geoVars, countVars, metricVars,
                   serr>>
    /\ EvalUnchanged

MetricFrame == UNCHANGED <<script, files, finalWritten, joinRead, geoVars, countVars,
                           printed>>

\* An assignment that stores 0 when the divisor is zero and goes on.
AssignZeroOnError(value, current, next) ==
    IF IsError(value)
    THEN <<Whole(0), next, serr>>
    ELSE <<value, next, serr>>

\* One assignment `name = <quotient>`: it raises on a zero divisor and leaves
\* the name unassigned.
Assign(value, current, next) ==
    IF IsError(value)
    THEN <<current, "error", "ZeroDivisionError">>
    ELSE <<value, next, serr>>

CalcPrecision ==
    /\ spc = "precision"
    /\ LET a == Assign(PrecisionOf(TP, FP), precision, "recall") IN
          /\ precision' = a[1] /\ spc' = a[2] /\ serr' = a[3]
    /\ UNCHANGED <<recall, f1_score, precision_2, recall_2, f1_score_2>>
    /\ MetricFrame /\ EvalUnchanged

CalcRecall ==
    /\ spc = "recall"
    /\ LET a == Assign(RecallOf(TP, FN), recall, "f1") IN
          /\ recall' = a[1] /\ spc' = a[2] /\ serr' = a[3]
    /\ UNCHANGED <<precision, f1_score, precision_2, recall_2, f1_score_2>>
    /\ MetricFrame /\ EvalUnchanged

CalcF1 ==
    /\ spc = "f1"
    /\ LET a == Assign(F1Of(precision, recall), f1_score, "print1") IN
          /\ f1_score' = a[1] /\ spc' = a[2] /\ serr' = a[3]
    /\ UNCHANGED <<precision, recall, precision_2, recall_2, f1_score_2>>
    /\ MetricFrame /\ EvalUnchanged

PrintTriple ==
    /\ spc = "print1"
    /\ printed' = printed \o <<"Precision", "Recall", "F1-score">>
    /\ spc' = "precision2"
    /\ UNCHANGED <<script, files, finalWritten, joinRead, geoVars, countVars, metricVars,
                   serr>>
    /\ EvalUnchanged

CalcPrecision2 ==
    /\ spc = "precision2"
    /\ LET a == Assign(PrecisionOf(TP_2, FP), precision_2, "recall2") IN
          /\ precision_2' = a[1] /\ spc' = a[2] /\ serr' = a[3]
    /\ UNCHANGED <<precision, recall, f1_score, recall_2, f1_score_2>>
    /\ MetricFrame /\ EvalUnchanged

\* The second recall with TP left in place.
CalcRecall2NotSubstituted ==
    /\ spc = "recall2"
    /\ LET a == Assign(RecallOf(TP, FN), recall_2, "f1_2") IN
          /\ recall_2' = a[1] /\ spc' = a[2] /\ serr' = a[3]
    /\ UNCHANGED <<precision, recall, f1_score, precision_2, f1_score_2>>
    /\ MetricFrame /\ EvalUnchanged

CalcRecall2 ==
    /\ spc = "recall2"
    /\ LET a == Assign(RecallOf(TP_2, FN), recall_2, "f1_2") IN
          /\ recall_2' = a[1] /\ spc' = a[2] /\ serr' = a[3]
    /\ UNCHANGED <<precision, recall, f1_score, precision_2, f1_score_2>>
    /\ MetricFrame /\ EvalUnchanged

CalcF1_2 ==
    /\ spc = "f1_2"
    /\ LET a == Assign(F1Of(precision_2, recall_2), f1_score_2, "print2") IN
          /\ f1_score_2' = a[1] /\ spc' = a[2] /\ serr' = a[3]
    /\ UNCHANGED <<precision, recall, f1_score, precision_2, recall_2>>
    /\ MetricFrame /\ EvalUnchanged

PrintTriple2 ==
    /\ spc = "print2"
    /\ printed' = printed \o <<"Precision with inverted spatial join",
                               "Recall with inverted spatial join",
                               "F1-score with inverted spatial join">>
    /\ spc' = "done"
    /\ UNCHANGED <<script, files, finalWritten, joinRead, geoVars, countVars, metricVars,
                   serr>>
    /\ EvalUnchanged

MetricsNext ==
    \/ CalcPrecision \/ CalcRecall \/ CalcF1 \/ PrintTriple
    \/ CalcPrecision2 \/ CalcRecall2 \/ CalcF1_2 \/ PrintTriple2

\* The workspace before the script runs: the ground-truth points, and possibly
\* a polygon feature class left by an earlier run under the name the joins read.
InitEval ==
    /\ ExecIdle
    /\ FilterIdle
    /\ BatchIdle
    /\ ReclassIdle
    /\ script \in Scripts
    /\ spc = "detect"
    /\ truth \in 0..MaxPoints
    /\ \E stale \in BOOLEAN :
          files = IF stale
                  THEN Write(Write(<<>>, input_Molly_points, "external"),
                             JoinTargetA(script), "earlier run")
                  ELSE Write(<<>>, input_Molly_points, "external")
    /\ finalWritten = ""
    /\ joinRead = <<>>
    /\ clipped = {}
    /\ polys = <<>>
    /\ tables = <<>>
    /\ TP = 0 /\ FN = 0 /\ All_polygons = 0
    /\ TP_2 = 0 /\ FP = 0 /\ All_points = 0
    /\ precision = None /\ recall = None /\ f1_score = None
    /\ precision_2 = None /\ recall_2 = None /\ f1_score_2 = None
    /\ printed = <<>>
    /\ serr = "none"

NextEval ==
    \/ DetectionStages
    \/ CopyPoints
    \/ SpatialJoinA
    \/ SpatialJoinB
    \/ CountPolygons
    \/ CountPoints
    \/ PrintCounts
    \/ MetricsNext

SpecEval == InitEval /\ [][NextEval]_vars

\* The metric lines applied to counts drawn from 0..MaxCount: the state of a
\* script after its six count lines.  A polygon matches some point exactly
\* when a point matches some polygon.
InitMetrics ==
    /\ ExecIdle
    /\ FilterIdle
    /\ BatchIdle
    /\ ReclassIdle
    /\ script = "detection"
    /\ spc = "precision"
    /\ TP \in 0..MaxCount /\ FN \in 0..MaxCount
    /\ TP_2 \in 0..MaxCount /\ FP \in 0..MaxCount
    /\ (TP = 0 <=> TP_2 = 0)
    /\ All_polygons = TP + FN
    /\ All_points = TP_2 + FP
    /\ files = <<>>
    /\ finalWritten = ""
    /\ joinRead = <<>>
    /\ truth = 0
    /\ clipped = {}
    /\ polys = <<>>
    /\ tables = <<>>
    /\ precision = None /\ recall = None /\ f1_score = None
    /\ precision_2 = None /\ recall_2 = None /\ f1_score_2 = None
    /\ printed = CountLabels
    /\ serr = "none"

SpecMetrics == InitMetrics /\ [][MetricsNext]_vars

(***************************************************************************)
(* Reclassify stage of DetectDeadTrees.execute on a class raster           *)
(***************************************************************************)
NODATA == -1

\* number_classes = int(parameters[3].value) if ... is not None else 10
NumberClassesOf(value) == IF value = None THEN 10 ELSE value[1]

\* A remap table whose entries start at class 2.
remapFromTwo ==
    <<<<2, NODATA>>, <<3, NODATA>>,
      <<4, NODATA>>, <<5, NODATA>>, <<6, NODATA>>,
      <<7, NODATA>>, <<8, NODATA>>, <<9, NODATA>>,
      <<10, 1>>>>

\* RemapValue([[1, "NODATA"], ..., [9, "NODATA"], [10, 1]])
remap ==
    <<<<1, NODATA>>, <<2, NODATA>>, <<3, NODATA>>,
      <<4, NODATA>>, <<5, NODATA>>, <<6, NODATA>>,
      <<7, NODATA>>, <<8, NODATA>>, <<9, NODATA>>,
      <<10, 1>>>>

\* Reclassify(raster, "Value", remap) with the default missing_values="DATA":
\* a value without a remap entry is kept.
ReclassifyValue(v) ==
    IF \E i \in DOMAIN remap : remap[i][1] = v
    THEN remap[CHOOSE i \in DOMAIN remap : remap[i][1] = v][2]
    ELSE v

\* IsoClusterUnsupervisedClassification(aerial_image, number_classes, ...):
\* every cell gets a class in 1..number_classes.
InitReclass ==
    /\ ExecIdle
    /\ FilterIdle
    /\ BatchIdle
    /\ EvalIdle
    /\ \E value \in {None} \cup {<<n>> : n \in 1..MaxClasses} :
          number_classes = NumberClassesOf(value)
    /\ classified \in UNION {[1..k -> 1..number_classes] : k \in 1..MaxCells}
    /\ dead_trees = <<>>
    /\ blue_band = <<>>
    /\ extracted = <<>>
    /\ rpc = "classified"

\* Step 4: Reclassify(classified_raster, "Value", remap).save(dead_trees_raster)
Reclassify ==
    /\ rpc = "classified"
    /\ dead_trees' = [c \in DOMAIN classified |-> ReclassifyValue(classified[c])]
    /\ rpc' = "reclassified"
    /\ UNCHANGED <<number_classes, classified, blue_band, extracted, execVars, evalVars,
                   filterVars, batchVars>>

NextReclass == Reclassify

SpecReclass == InitReclass /\ [][NextReclass]_vars

\* Values of the blue band around the threshold of step 5.
BlueValues == {149, 150, 151}

\* Con(blue_band >= 150, 1): 1 where the condition holds, NoData elsewhere.
ConBlue(v) == IF v >= 150 THEN 1 ELSE NODATA

\* ExtractByMask(raster, mask): the raster's cell where the mask has data.
ExtractByMask(raster, mask) ==
    [c \in DOMAIN raster |-> IF mask[c] /= NODATA THEN raster[c] ELSE NODATA]

\* Steps 4 and 5 applied to any raster of class values and NoData cells, with
\* the default number of classes.
InitThreshold ==
    /\ ExecIdle
    /\ FilterIdle
    /\ BatchIdle
    /\ EvalIdle
    /\ number_classes = NumberClassesOf(None)
    /\ \E k \in 1..MaxCells :
          /\ classified \in [1..k -> {NODATA} \cup 1..number_classes]
          /\ blue_band \in [1..k -> BlueValues]
    /\ dead_trees = <<>>
    /\ extracted = <<>>
    /\ rpc = "classified"

\* Step 5: Con(blue_band >= 150, 1).save(blue_mask);
\* ExtractByMask(dead_trees_raster, blue_mask).save(extracted_raster)
BlueThreshold ==
    /\ rpc = "reclassified"
    /\ LET blue_mask_cells == [c \in DOMAIN blue_band |-> ConBlue(blue_band[c])]
       IN  extracted' = ExtractByMask(dead_trees, blue_mask_cells)
    /\ rpc' = "extracted"
    /\ UNCHANGED <<number_classes, classified, dead_trees, blue_band, execVars, evalVars,
                   filterVars, batchVars>>

NextThreshold == Reclassify \/ BlueThreshold

SpecThreshold == InitThreshold /\ [][NextThreshold]_vars

(***************************************************************************)
(* The two size filters of steps 8 to 10                                   *)
(***************************************************************************)
\* min_area = float(parameters[4].value) if ... is not None else 1.0
MinAreaOf(value) == IF value = None THEN 1 ELSE value[1]
\* min_buffer_area = float(parameters[6].value) if ... is not None else 30.0
MinBufferAreaOf(value) == IF value = None THEN 30 ELSE value[1]

\* Areas are whole numbers of area units: the small ones and those around the
\* default threshold of the second filter.
AreaValues ==
    0..MaxArea \cup {MinBufferAreaOf(None) - 1, MinBufferAreaOf(None),
                     MinBufferAreaOf(None) + 1}

\* The rows of a feature class, as the Shape_Area of each row in ascending
\* order (the order of rows plays no part in any step).
Rows(n) ==
    {r \in UNION {[1..k -> AreaValues] : k \in 0..n} :
        \A i \in 1..(Len(r) - 1) : r[i] <= r[i + 1]}

\* A selection that keeps the rows at the threshold.
SelectInclusive(rows, threshold) == SelectSeq(rows, LAMBDA a : a >= threshold)

\* arcpy.analysis.Select(in, out, f"\"Shape_Area\" > {threshold}")
Select(rows, threshold) == SelectSeq(rows, LAMBDA a : a > threshold)

\* The polygons of step 8 with their areas calculated, and the two thresholds.
InitFilter ==
    /\ ExecIdle
    /\ EvalIdle
    /\ ReclassIdle
    /\ BatchIdle
    /\ \E value \in {None} \cup {<<a>> : a \in 0..MaxArea} :
          min_area = MinAreaOf(value)
    /\ \E value \in {None} \cup {<<a>> : a \in 0..MaxArea} :
          min_buffer_area = MinBufferAreaOf(value)
    /\ \E rows \in Rows(MaxRegions) : areas = [n \in {"dead_trees_vector"} |-> rows]
    /\ fpc = "select"

FilterUnchanged ==
    UNCHANGED <<min_area, min_buffer_area, execVars, evalVars, reclassVars, batchVars>>

\* Step 8: Select(dead_trees_vector, dead_trees_selected, "Shape_Area" > min_area)
SelectByMinArea ==
    /\ fpc = "select"
    /\ areas' = Write(areas, "dead_trees_selected",
                      Select(areas["dead_trees_vector"], min_area))
    /\ fpc' = "buffer"
    /\ FilterUnchanged

\* Step 9: Buffer, Dissolve (SINGLE_PART) and CalculateField: the buffers of
\* the selected polygons merge into at most as many regions, of any area.
BufferDissolve ==
    /\ fpc = "buffer"
    /\ \E rows \in Rows(Len(areas["dead_trees_selected"])) :
          areas' = Write(areas, "dissolved_buffer", rows)
    /\ fpc' = "select2"
    /\ FilterUnchanged

\* Step 10: Select(dissolved_buffer, trees_buffer_processed,
\*                 "Shape_Area" > min_buffer_area)
SelectByMinBufferArea ==
    /\ fpc = "select2"
    /\ areas' = Write(areas, "trees_buffer_processed",
                      Select(areas["dissolved_buffer"], min_buffer_area))
    /\ fpc' = "copy"
    /\ FilterUnchanged

\* Step 10: CopyFeatures(trees_buffer_processed, output_features)
CopyToOutput ==
    /\ fpc = "copy"
    /\ areas' = Write(areas, "output_features", areas["trees_buffer_processed"])
    /\ fpc' = "done"
    /\ FilterUnchanged

NextFilter == SelectByMinArea \/ BufferDissolve \/ SelectByMinBufferArea \/ CopyToOutput

SpecFilter == InitFilter /\ [][NextFilter]_vars

(***************************************************************************)
(* The batch loop of zoom.py                                               *)
(***************************************************************************)
\* A file of the input folder, as os.path.splitext splits its name.
JP2(i) == [stem |-> ToString(i), ext |-> ".JP2"]
OtherFile == [stem |-> "lower", ext |-> ".jp2"]

\* jp2_files = [file for file in all_files if file.endswith(".JP2")]
jp2_files == SelectSeq(all_files, LAMBDA file : file.ext = ".JP2")

\* jp2_file_path = os.path.join(workspace, jp2_file)
PathIn(folder, file) == folder \o "/" \o file.stem \o file.ext

\* An f-string: the placeholder is replaced by the label of the image.
FString(prefix, label) == prefix \o label \o ".shp"

\* "<prefix>{file_name_without_extension}.shp" written without the f prefix:
\* the value is the text itself, braces included, whatever the label.
PlainString(prefix, label) == prefix \o "{file_name_without_extension}" \o ".shp"

\* A statement of the loop body: its line, the call, the names it reads and
\* the names it writes (dataset names, and the variables holding rasters).
Op(line, tool, reads, writes) ==
    [line |-> line, tool |-> tool, reads |-> reads, writes |-> writes]

LoopBody(jp2_file) ==
    LET file_name_without_extension == jp2_file.stem
        jp2_file_path == PathIn("input_images", jp2_file)
        vector_out == PlainString("dead_trees_vector_", file_name_without_extension)
        copy_out == PlainString("dead_trees_selected_copy_", file_name_without_extension)
        final_out == PlainString("dead_trees_final_", file_name_without_extension)
    IN
    <<Op(27, "ExtractByMask", {jp2_file_path, "shrubs_and_forest.tif"},
         {"raster_clipped_forest"}),
      Op(31, "IsoCluster", {"raster_clipped_forest"}, {"output_signature.GSG"}),
      Op(34, "MLClassify", {"raster_clipped_forest", "output_signature.GSG"},
         {"classified_raster"}),
      Op(40, "Reclassify", {"classified_raster"}, {"out_classified_raster"}),
      Op(41, "save", {"out_classified_raster"}, {"dead_trees.tif"}),
      Op(45, "CreateColorComposite", {jp2_file_path}, {"red_raster.tif"}),
      Op(49, "Reclassify", {"red_raster.tif"}, {"red_mask.tif"}),
      Op(51, "ExtractByMask", {"dead_trees.tif", "red_mask.tif"},
         {"extracted_raster_by_red"}),
      Op(52, "save", {"extracted_raster_by_red"}, {"extracted_raster_by_red.tif"}),
      Op(55, "CreateColorComposite", {jp2_file_path}, {"blue_raster.tif"}),
      Op(59, "Reclassify", {"blue_raster.tif"}, {"blue_mask.tif"}),
      Op(60, "ExtractByMask", {"extracted_raster_by_red.tif", "blue_mask.tif"},
         {"extracted_raster_both_bands"}),
      Op(61, "save", {"extracted_raster_both_bands"},
         {"extracted_raster_both_bands.tif"}),
      Op(64, "RegionGroup", {"extracted_raster_both_bands.tif"}, {"dead_trees_region"}),
      Op(66, "RasterToPolygon", {"dead_trees_region"}, {vector_out}),
      Op(69, "AddField", {"dead_trees_vector.shp"}, {"dead_trees_vector.shp"}),
      Op(73, "CalculateField", {"dead_trees_vector.shp"}, {"dead_trees_vector.shp"}),
      Op(78, "Select", {"dead_trees_vector.shp"}, {"dead_trees_selected.shp"}),
      Op(80, "CopyFeatures", {"dead_trees_selected.shp"}, {copy_out}),
      Op(89, "Buffer", {copy_out}, {"buffered_trees.shp"}),
      Op(93, "Dissolve", {"buffered_trees.shp"}, {"dissolved_buffer.shp"}),
      Op(96, "AddField", {"dissolved_buffer.shp"}, {"dissolved_buffer.shp"}),
      Op(100, "CalculateField", {"dissolved_buffer.shp"}, {"dissolved_buffer.shp"}),
      Op(104, "Select", {"dissolved_buffer.shp"}, {"trees_buffer_processed.shp"}),
      Op(108, "CopyFeatures", {"trees_buffer_processed.shp"}, {final_out}),
      Op(116, "CopyFeatures", {"Molly_deadtrees.shp", "raster_clipped_forest"},
         {"Molly_points_clipped.shp"}),
      Op(121, "SpatialJoin", {final_out, "Molly_points_clipped.shp"},
         {"polygons_to_points.shp"}),
      Op(126, "SpatialJoin", {"Molly_points_clipped.shp", final_out},
         {"points_to_polygons.shp"}),
      Op(135, "Select", {"polygons_to_points.shp"}, {"selected_polygons_to_points"}),
      Op(138, "GetCount", {"selected_polygons_to_points"}, {}),
      Op(139, "GetCount", {"polygons_to_points.shp"}, {}),
      Op(143, "Select", {"points_to_polygons.shp"}, {"selected_points_to_polygons"}),
      Op(146, "GetCount", {"selected_points_to_polygons"}, {}),
      Op(147, "GetCount", {"points_to_polygons.shp"}, {}),
      Op(160, "metrics", {}, {})>>

\* What the script is given: the images, the mask and the ground-truth points.
ExternalInputs ==
    {PathIn("input_images", all_files[i]) : i \in DOMAIN all_files}
    \cup {"shrubs_and_forest.tif", "Molly_deadtrees.shp"}

\* Datasets the stand-alone detection script leaves in the same workspace.
EarlierRunNames ==
    {"dead_trees_vector.shp", "dead_trees_selected.shp", "trees_buffer_processed.shp"}

Earlier == [image |-> 0, line |-> 0]

InitBatch ==
    /\ ExecIdle
    /\ EvalIdle
    /\ ReclassIdle
    /\ FilterIdle
    /\ \E n \in 0..MaxImages, other \in BOOLEAN :
          all_files = [i \in 1..n |-> JP2(i)] \o (IF other THEN <<OtherFile>> ELSE <<>>)
    /\ \E stale \in BOOLEAN :
          wsfiles = [name \in ExternalInputs \cup (IF stale THEN EarlierRunNames ELSE {})
                        |-> Earlier]
    /\ jp2_index = 0
    /\ bip = 0
    /\ lastop = NoOp
    /\ bpc = "loop"

BatchUnchanged == UNCHANGED <<all_files, execVars, evalVars, reclassVars, filterVars>>

\* for jp2_file in jp2_files: take the next file, or leave the loop.
NextImage ==
    /\ bpc = "loop"
    /\ IF jp2_index < Len(jp2_files)
       THEN /\ jp2_index' = jp2_index + 1
            /\ bip' = 1
            /\ bpc' = "body"
       ELSE /\ bpc' = "done"
            /\ UNCHANGED <<jp2_index, bip>>
    /\ UNCHANGED <<wsfiles, lastop>>
    /\ BatchUnchanged

\* The ways a statement can end: a call fails with ExecuteError (always, when
\* a dataset it reads does not exist); the metric lines divide by zero.
Outcomes(op) ==
    IF op.tool = "metrics" THEN {"", "ZeroDivisionError"}
    ELSE IF op.reads \subseteq DOMAIN wsfiles THEN {"", "ExecuteError"}
    ELSE {"ExecuteError"}

RECURSIVE WriteAll(_, _, _)
WriteAll(f, names, value) ==
    IF names = {} THEN f
    ELSE LET n == CHOOSE x \in names : TRUE
         IN  WriteAll(Write(f, n, value), names \ {n}, value)

\* One statement of the loop body.
RunOp ==
    /\ bpc = "body"
    /\ LET body == LoopBody(jp2_files[jp2_index])
           op == body[bip]
       IN  \E error \in Outcomes(op) :
              /\ lastop' = [line |-> op.line, tool |-> op.tool, image |-> jp2_index,
                            sources |-> [r \in op.reads |->
                                           IF r \in DOMAIN wsfiles
                                           THEN wsfiles[r].image ELSE -1],
                            writes |-> IF error = "" THEN op.writes ELSE {},
                            error |-> error]
              /\ IF error = ""
                 THEN /\ wsfiles' = WriteAll(wsfiles, op.writes,
                                             [image |-> jp2_index, line |-> op.line])
                      /\ bip' = bip + 1
                      /\ bpc' = IF bip = Len(body) THEN "loop" ELSE "body"
                 ELSE /\ bpc' = "error"
                      /\ UNCHANGED <<wsfiles, bip>>
    /\ UNCHANGED jp2_index
    /\ BatchUnchanged

NextBatch == NextImage \/ RunOp

SpecBatch == InitBatch /\ [][NextBatch]_vars

(***************************************************************************)
(* Properties of DetectDeadTrees.execute (checked under Spec)              *)
(***************************************************************************)
Returned == pc \in {"returned", "raised"}
PassedValidation == ext.checkouts > 0
LeftInWorkspace ==
    {p \in fs \ InitialDatasets : p.ws /\ p.stem \in DeclaredIntermediates}

\* C1: after a run that passed validation has returned or raised, and every
\* attempted deletion succeeded, no declared intermediate artifact remains in
\* the workspace.
C1_NoIntermediateRemains ==
    (Returned /\ PassedValidation /\ deletion.failed = {}) => LeftInWorkspace = {}

FailedAt(i) == oplog[i].error /= ""
ErrorOf(i) == [type |-> oplog[i].error, op |-> oplog[i].name, stage |-> oplog[i].stage]
ErrorReported == \E m \in DOMAIN messages : messages[m].level = "error"

\* What the claim requires once the operation logged at position i has failed.
AbortsAt(i) ==
    /\ \A j \in DOMAIN oplog : j > i => oplog[j].stage <= oplog[i].stage
    /\ ErrorReported
    /\ pc \in {"finally", "raised"}
    /\ (pc = "finally" => pending = ErrorOf(i))
    /\ (pc = "raised" => raised = ErrorOf(i))

\* C2 (as stated): when the operation of any stage fails, no operation of a
\* later stage is executed, an error message is reported and the same error
\* is re-raised; the run never ends as a success.
C2_AnyFailureAborts == \A i \in DOMAIN oplog : FailedAt(i) => AbortsAt(i)

\* C2 (amended): the same, for every failing operation except the opening of
\* the blue band by its band path in step 5, whose exception is caught.
C2_UncaughtFailureAborts ==
    \A i \in DOMAIN oplog :
        (FailedAt(i) /\ ~oplog[i].caught) =>
            /\ AbortsAt(i)
            /\ i = Len(oplog)
            /\ messages[Len(messages)].level = "error"

\* A run where the band fallback was taken and a later stage failed with an
\* unexpected exception that reached the caller.
C2_Witness ==
    /\ pc = "raised"
    /\ raised.type = "Exception"
    /\ raised.stage = 8
    /\ \E i \in DOMAIN oplog : oplog[i].caught

BadPrecondition ==
    \/ ~cfg.input_exists
    \/ (cfg.mask_layer /= "none" /\ ~cfg.mask_exists)
    \/ ~cfg.workspace_exists
    \/ cfg.ext_status /= "Available"

\* C3: with a missing input raster, a given but missing mask, a missing
\* workspace or an unavailable extension, execute raises an execution error;
\* no stage runs, no intermediate is created, no message is emitted and the
\* extension is not checked out.
C3_PreconditionFailureAborts ==
    (BadPrecondition /\ pc /= "start") =>
        /\ pc = "raised"
        /\ raised.type = "ExecuteError"
        /\ oplog = <<>>
        /\ intermediates = <<>>
        /\ fs = InitialDatasets
        /\ messages = <<>>
        /\ ext = [out |-> FALSE, checkouts |-> 0, checkins |-> 0, cleanup |-> <<>>]

\* The mask is given but missing while everything else is in order.
C3_Witness ==
    /\ pc = "raised"
    /\ cfg.input_exists /\ cfg.workspace_exists /\ cfg.ext_status = "Available"
    /\ cfg.mask_layer = "given" /\ ~cfg.mask_exists

(***************************************************************************)
(* Properties of the evaluation scripts                                    *)
(***************************************************************************)
\* C4: the polygon feature class read by both spatial joins is the one the
\* detection stages of the same run wrote as their final output.
C4_JoinsReadRunOutput ==
    \A i \in DOMAIN joinRead :
        /\ joinRead[i] = finalWritten
        /\ (joinRead[i] \in DOMAIN files => files[joinRead[i]] = "run")

\* x is the exact ratio n / d.
IsRatio(x, n, d) == /\ x /= None
                    /\ x[2] > 0
                    /\ x[1] * d = n * x[2]

NonZeroDenominators == TP + FP /= 0 /\ TP + FN /= 0 /\ TP /= 0

\* C5: with non-zero denominators the metric lines yield precision =
\* TP/(TP+FP), recall = TP/(TP+FN) and f1 = 2*precision*recall/(precision+recall)
\* as exact ratios; TP=8, FP=2, FN=1 gives 8/10, 8/9 and 16/19.
C5_MetricsAreTheRatios ==
    /\ NonZeroDenominators =>
          /\ spc /= "error"
          /\ (spc \notin {"precision"} => IsRatio(precision, TP, TP + FP))
          /\ (spc \notin {"precision", "recall"} => IsRatio(recall, TP, TP + FN))
          /\ (spc \notin {"precision", "recall", "f1"} =>
                /\ f1_score /= None
                /\ f1_score[2] > 0
                /\ f1_score[1] * (precision[1] * recall[2] + recall[1] * precision[2])
                       = 2 * precision[1] * recall[1] * f1_score[2]
                /\ IsRatio(f1_score, 2 * TP, 2 * TP + FP + FN))
    /\ (TP = 8 /\ FP = 2 /\ FN = 1 /\ spc = "done") =>
          /\ precision = <<4, 5>>
          /\ recall = <<8, 9>>
          /\ f1_score = <<16, 19>>

C5_Witness == TP = 8 /\ FP = 2 /\ FN = 1 /\ spc = "done"

Assigned(x) == x /= None
IsZero(x) == Assigned(x) /\ x[1] = 0

\* C6: when a denominator of a metric is 0 the computation stops with a
\* division-by-zero error at that metric, which never gets a value; with
\* TP = 0 and FP = 0 no precision is produced.
C6_ZeroDenominatorRaises ==
    /\ (TP + FP = 0) =>
          /\ ~Assigned(precision)
          /\ spc \in {"precision", "error"}
    /\ (TP + FN = 0) =>
          /\ ~Assigned(recall)
          /\ spc \in {"precision", "recall", "error"}
    /\ (IsZero(precision) /\ IsZero(recall)) =>
          /\ ~Assigned(f1_score)
          /\ spc \in {"f1", "error"}
    /\ (TP_2 + FP = 0) => ~Assigned(precision_2)
    /\ (TP_2 + FN = 0) => ~Assigned(recall_2)
    /\ (IsZero(precision_2) /\ IsZero(recall_2)) => ~Assigned(f1_score_2)
    /\ (spc = "error" => serr = "ZeroDivisionError")
    /\ (spc = "done" => TP + FP /= 0 /\ TP + FN /= 0 /\ TP /= 0
                        /\ TP_2 + FP /= 0 /\ TP_2 + FN /= 0 /\ TP_2 /= 0)

C6_Witness ==
    /\ TP = 0 /\ FP = 0 /\ FN > 0
    /\ spc = "error"
    /\ serr = "ZeroDivisionError"
    /\ precision = None

\* 3 polygons and 2 points: two polygons contain one distinct point each, the
\* third contains none.
Scenario ==
    /\ clipped = {1, 2}
    /\ Len(polys) = 3
    /\ \A S \in {{}, {1}, {2}} : Cardinality({i \in DOMAIN polys : polys[i] = S}) = 1

ScenarioCounts ==
    /\ TP = 2 /\ FN = 1 /\ All_polygons = 3
    /\ TP_2 = 2 /\ FP = 0 /\ All_points = 2

\* C7 (as stated): in the scenario the counts are TP=2, FN=1, All_polygons=3,
\* TP_2=2, FP=0, All_points=2, the point-view triple is 1, 1, 1 and the
\* polygon-view triple is 1, 2/3, 4/5.
C7_ScenarioPointViewAllOnes ==
    (Scenario /\ spc = "done") =>
        /\ ScenarioCounts
        /\ precision_2 = <<1, 1>> /\ recall_2 = <<1, 1>> /\ f1_score_2 = <<1, 1>>
        /\ precision = <<1, 1>> /\ recall = <<2, 3>> /\ f1_score = <<4, 5>>

\* C7 (amended): in the scenario the evaluation runs to its end with the same
\* counts, and both triples are precision 1, recall 2/3, f1 4/5: the
\* point-view recall divides by TP_2 + FN with the polygon-view FN = 1.
C7_ScenarioBothViews ==
    Scenario =>
        /\ serr = "none"
        /\ (spc = "done" =>
              /\ ScenarioCounts
              /\ precision_2 = <<1, 1>> /\ recall_2 = <<2, 3>> /\ f1_score_2 = <<4, 5>>
              /\ precision = <<1, 1>> /\ recall = <<2, 3>> /\ f1_score = <<4, 5>>)

C7_Witness == Scenario /\ spc = "done" /\ Len(printed) >= 12

AfterCountingPolygons ==
    \/ spc \in {"countB", "printcounts", "precision", "recall", "f1", "print1",
                "precision2", "recall2", "f1_2", "print2", "done"}
    \/ (spc = "error" /\ serr = "ZeroDivisionError")
AfterCountingPoints == AfterCountingPolygons /\ spc /= "countB"

MatchedPolygons == {i \in DOMAIN polys : \E p \in clipped : p \in polys[i]}
MatchedPoints == {p \in clipped : \E i \in DOMAIN polys : p \in polys[i]}

\* C8: TP is the number of polygons that intersect a point and TP_2 the number
\* of points that intersect a polygon; 0 <= TP <= All_polygons and
\* 0 <= TP_2 <= All_points, so FN and FP are never negative.
C8_MatchedAtMostTotal ==
    /\ AfterCountingPolygons =>
          /\ TP = Cardinality(MatchedPolygons)
          /\ All_polygons = Len(polys)
          /\ 0 <= TP /\ TP <= All_polygons
          /\ FN = All_polygons - TP /\ FN >= 0
    /\ AfterCountingPoints =>
          /\ TP_2 = Cardinality(MatchedPoints)
          /\ All_points = Cardinality(clipped)
          /\ 0 <= TP_2 /\ TP_2 <= All_points
          /\ FP = All_points - TP_2 /\ FP >= 0

C8_Witness ==
    /\ spc = "done"
    /\ 0 < TP /\ TP < All_polygons
    /\ 0 < TP_2 /\ TP_2 < All_points

TripleLabels ==
    <<"Precision", "Recall", "F1-score",
      "Precision with inverted spatial join",
      "Recall with inverted spatial join",
      "F1-score with inverted spatial join">>

\* C9: an evaluation that reaches its end has reported two triples; the first
\* is computed from TP, the second from TP_2, both with FN = All_polygons - TP
\* and FP = All_points - TP_2.
C9_TwoTriplesShareFNandFP ==
    spc = "done" =>
        LET fn == All_polygons - TP
            fp == All_points - TP_2
        IN  /\ FN = fn /\ FP = fp
            /\ IsRatio(precision, TP, TP + fp)
            /\ IsRatio(recall, TP, TP + fn)
            /\ IsRatio(f1_score, 2 * TP, 2 * TP + fp + fn)
            /\ IsRatio(precision_2, TP_2, TP_2 + fp)
            /\ IsRatio(recall_2, TP_2, TP_2 + fn)
            /\ IsRatio(f1_score_2, 2 * TP_2, 2 * TP_2 + fp + fn)
            /\ SubSeq(printed, Len(printed) - 5, Len(printed)) = TripleLabels

C9_Witness ==
    /\ spc = "done"
    /\ TP /= TP_2
    /\ FN > 0 /\ FP > 0
    /\ recall /= recall_2

(***************************************************************************)
(* Properties of the reclassify stage                                      *)
(***************************************************************************)
\* C10: for every configured number of classes N the reclassified raster has 1
\* where the class raster has class N and NoData everywhere else.
C10_HighestClassIsolated ==
    rpc = "reclassified" =>
        \A c \in DOMAIN classified :
            dead_trees[c] = IF classified[c] = number_classes THEN 1 ELSE NODATA

(***************************************************************************)
(* Data flow of DetectDeadTrees.execute (checked under Spec)               *)
(***************************************************************************)
Stages == 1..10
StageOps(k) == {i \in DOMAIN oplog : oplog[i].stage = k}
StageReads(k) == UNION {oplog[i].reads : i \in StageOps(k)}

\* The names a stage takes from outside: read by one of its operations and not
\* written by an earlier operation of the same stage.
StageInputs(k) ==
    {r \in StageReads(k) :
        \E i \in StageOps(k) :
            /\ r \in oplog[i].reads
            /\ ~\E j \in StageOps(k) : j < i /\ r \in oplog[j].writes}

\* The stage ran all its operations (a caught failure does not end it).
Completed(k) ==
    /\ StageOps(k) /= {}
    /\ \A i \in StageOps(k) : FailedAt(i) => oplog[i].caught

\* The artifact a stage hands on: what its last writing operation wrote; for
\* stage 1 the name aerial_image, whether clipped or the input raster itself.
HandedOn(k) ==
    IF k = 1 THEN {"aerial_image"}
    ELSE LET W == {i \in StageOps(k) : oplog[i].writes /= {}}
             last == CHOOSE i \in W : \A j \in W : j <= i
         IN  IF W = {} THEN {} ELSE oplog[last].writes

\* The nearest earlier stage that hands on an artifact (stage 3 only reports).
Preceding(k) ==
    LET E == {j \in Stages : j < k /\ (j = 1 \/ StageOps(j) /= {})}
    IN  CHOOSE j \in E : \A l \in E : l <= j

ClippedImageProduced ==
    \E i \in StageOps(1) : "aerial_image" \in oplog[i].writes /\ ~FailedAt(i)

\* C13 (as stated): every stage after the first takes as its only data input
\* the artifact written by the preceding stage, and no stage reads the
\* original input raster once stage 1 has produced the clipped image.
C13_StagesReadOnlyPredecessor ==
    \A k \in Stages \ {1} :
        /\ StageInputs(k) \subseteq HandedOn(Preceding(k))
        /\ (Completed(k) => StageInputs(k) = HandedOn(Preceding(k)))
        /\ (ClippedImageProduced => "input_raster" \notin StageReads(k))

\* What stage k may take from outside.
AllowedInputs(k) ==
    HandedOn(Preceding(k)) \cup (IF k = 5 THEN {"input_raster"} ELSE {})

\* C13 (amended): every stage after the first takes as data input the artifact
\* handed on by the preceding stage and nothing else, except stage 5, which
\* also reads the original input raster for its blue band, whether or not
\* stage 1 has produced a clipped image; no other stage after the first reads
\* the original input raster once the clipped image exists.
C13_StagesChainedExceptBlueBand ==
    \A k \in Stages \ {1} :
        /\ StageInputs(k) \subseteq AllowedInputs(k)
        /\ (Completed(k) => StageInputs(k) = AllowedInputs(k))
        /\ (ClippedImageProduced /\ k /= 5 => "input_raster" \notin StageReads(k))
        /\ (Completed(k) /\ k = 5 => "input_raster" \in StageReads(k))

\* A successful run with a mask: stage 5 has read the reclassified raster and
\* the original input raster, and stage 6 has read what stage 5 handed on.
C13_Witness ==
    /\ pc = "returned"
    /\ ClippedImageProduced
    /\ StageInputs(5) = {"input_raster", "dead_trees_raster"}
    /\ StageInputs(6) = {"extracted_raster"}

(***************************************************************************)
(* The cleanup phase of DetectDeadTrees.execute (checked under Spec)       *)
(***************************************************************************)
CheckInFailed == Returned /\ PassedValidation /\ ext.out
UncaughtFailures == {i \in DOMAIN oplog : FailedAt(i) /\ ~oplog[i].caught}

\* C14: in the cleanup phase a failing deletion or a failing check-in is
\* swallowed: Delete is called exactly once for every distinct tracked path,
\* every path whose deletion did not fail is gone, the check-in is attempted
\* once, and the run still returns normally when no stage failed and still
\* raises the error of the failed operation otherwise.
C14_CleanupFailuresSwallowed ==
    (Returned /\ PassedValidation) =>
        /\ DOMAIN deletion.calls = Range(intermediates)
        /\ \A p \in Range(intermediates) : deletion.calls[p] = 1
        /\ fs \cap Range(intermediates) = deletion.failed
        /\ ext.checkins = 1
        /\ (pc = "returned" <=> UncaughtFailures = {})
        /\ (pc = "raised" => \E i \in UncaughtFailures : raised = ErrorOf(i))

\* A failed run in which one deletion failed, the other tracked paths were
\* deleted and the check-in failed as well.
C14_Witness ==
    /\ pc = "raised"
    /\ raised.stage = 9
    /\ deletion.failed /= {}
    /\ Cardinality(DOMAIN deletion.calls) > Cardinality(deletion.failed) + 1
    /\ CheckInFailed

(***************************************************************************)
(* Intermediate artifacts of DetectDeadTrees.execute (checked under Spec)  *)
(***************************************************************************)
\* The names of execute that hold the path of a temporary dataset.
IntermediateNames ==
    (IF cfg.mask_layer = "given" THEN {"aerial_image"} ELSE {}) \cup
    {"classified_raster", "dead_trees_raster", "blue_mask", "extracted_raster",
     "filtered_raster", "expanded_raster", "shrinked_raster", "grouped_raster",
     "dead_trees_vector", "dead_trees_selected", "buffered_trees",
     "dissolved_buffer", "trees_buffer_processed"}

Wrote(i, v) == v \in oplog[i].writes /\ ~FailedAt(i)
WritesOf(v) == {i \in DOMAIN oplog : Wrote(i, v)}
\* An operation that creates v, and one that changes v in place.
CreationsOf(v) == {i \in WritesOf(v) : v \notin oplog[i].reads}
UpdatesOf(v) == {i \in WritesOf(v) : v \in oplog[i].reads}
ReadsOf(v) == {i \in DOMAIN oplog : v \in oplog[i].reads}
ReadingStages(v) == {oplog[i].stage : i \in ReadsOf(v)}
StageOf(S) == {oplog[i].stage : i \in S}

CopyDone == \E i \in DOMAIN oplog : Wrote(i, "output_features")
\* Once the output has been copied no operation reads an intermediate.
NothingReadAfterCopy ==
    \A i \in DOMAIN oplog :
        Wrote(i, "output_features") =>
            \A j \in DOMAIN oplog : j > i => oplog[j].reads \cap IntermediateNames = {}

Deleted == DOMAIN deletion.calls \ deletion.failed

\* C17: for every choice of input raster path, mask, workspace and output
\* path, the cleanup phase deletes neither the input raster nor the output
\* feature class: the input raster still exists when execute ends, and after a
\* successful run the output feature class exists.
C17_CleanupSparesInputAndOutput ==
    (Returned /\ PassedValidation) =>
        /\ input_raster \notin Deleted
        /\ output_features \notin Deleted
        /\ input_raster \in fs
        /\ (pc = "returned" => output_features \in fs)

(***************************************************************************)
(* Reclassify and blue threshold applied twice (checked under              *)
(* SpecThreshold)                                                          *)
(***************************************************************************)
\* The input is itself an output of steps 4 and 5: every cell NoData or 1.
AlreadyReclassified == \A c \in DOMAIN classified : classified[c] \in {NODATA, 1}
PassesBlue(c) == blue_band[c] >= 150

\* C12 (as stated): applied to an already-reclassified raster, reclassify and
\* threshold return it unchanged: a cell of value 1 that passes the blue
\* threshold stays 1 and a NoData cell stays NoData.
C12_ReclassifyThresholdIdempotent ==
    (rpc = "extracted" /\ AlreadyReclassified) =>
        \A c \in DOMAIN classified :
            /\ (classified[c] = 1 /\ PassesBlue(c) => extracted[c] = 1)
            /\ (classified[c] = NODATA => extracted[c] = NODATA)

\* C12 (amended): applied to an already-reclassified raster, reclassify and
\* threshold return NoData in every cell: a NoData cell stays NoData and a
\* cell of value 1 becomes NoData, whether or not it passes the blue threshold.
C12_SecondPassAllNoData ==
    (rpc = "extracted" /\ AlreadyReclassified) =>
        \A c \in DOMAIN classified : extracted[c] = NODATA

\* An already-reclassified raster with a cell of value 1 that passes the blue
\* threshold and a NoData cell, after the second pass.
C12_Witness ==
    /\ rpc = "extracted"
    /\ AlreadyReclassified
    /\ \E c \in DOMAIN classified : classified[c] = 1 /\ PassesBlue(c)
    /\ \E c \in DOMAIN classified : classified[c] = NODATA

(***************************************************************************)
(* The size filters (checked under SpecFilter)                             *)
(***************************************************************************)
Written(name) == name \in DOMAIN areas
CountOf(rows, a) == Cardinality({i \in DOMAIN rows : rows[i] = a})

\* out holds exactly the rows of in whose area is strictly above the threshold.
KeepsExactlyAbove(in, out, threshold) ==
    Written(out) =>
        \A a \in AreaValues :
            CountOf(areas[out], a) =
                IF a > threshold THEN CountOf(areas[in], a) ELSE 0

\* C11: the first filter keeps exactly the polygons whose area is strictly
\* greater than min_area (1 when not given), the second exactly the dissolved
\* regions whose area is strictly greater than min_buffer_area (30 when not
\* given); a region at the threshold is dropped; the output holds only regions
\* that passed the second filter.
C11_FiltersKeepStrictlyLarger ==
    /\ KeepsExactlyAbove("dead_trees_vector", "dead_trees_selected", min_area)
    /\ KeepsExactlyAbove("dissolved_buffer", "trees_buffer_processed", min_buffer_area)
    /\ Written("output_features") =>
          /\ areas["output_features"] = areas["trees_buffer_processed"]
          /\ \A i \in DOMAIN areas["output_features"] :
                areas["output_features"][i] > min_buffer_area

\* Both thresholds at their defaults: a polygon of area 1 and a dissolved
\* region of area 30 were dropped, and a region of area 31 is in the output.
C11_Witness ==
    /\ fpc = "done"
    /\ min_area = 1 /\ min_buffer_area = 30
    /\ CountOf(areas["dead_trees_vector"], 1) > 0
    /\ CountOf(areas["dissolved_buffer"], 30) > 0
    /\ areas["output_features"] = <<31>>

(***************************************************************************)
(* The batch loop of zoom.py (checked under SpecBatch)                     *)
(***************************************************************************)
PolygonOutputLines == {66, 80, 108}
PolygonOutputNames ==
    {"dead_trees_vector_{file_name_without_extension}.shp",
     "dead_trees_selected_copy_{file_name_without_extension}.shp",
     "dead_trees_final_{file_name_without_extension}.shp"}
PolygonOutputs == {n \in DOMAIN wsfiles : wsfiles[n].line \in PolygonOutputLines}
ImagesDone == IF bpc \in {"loop", "done"} THEN jp2_index ELSE jp2_index - 1

\* C15: the polygon outputs of the loop are written under the literal
\* brace-placeholder names, the same for every image, so the run never holds
\* more than these three polygon outputs, and once an image has been
\* processed all three are the ones written for that image: after two or more
\* images only the outputs of the last one remain.
C15_BatchOutputsOverwritten ==
    /\ (lastop.line \in PolygonOutputLines /\ lastop.error = "") =>
          lastop.writes \subseteq PolygonOutputNames
    /\ PolygonOutputs \subseteq PolygonOutputNames
    /\ (bpc \in {"loop", "done"} /\ jp2_index >= 1) =>
          /\ PolygonOutputs = PolygonOutputNames
          /\ \A n \in PolygonOutputNames : wsfiles[n].image = jp2_index

\* The loop has ended after at least two images.
C15_Witness ==
    /\ bpc = "done"
    /\ Len(jp2_files) >= 2
    /\ ImagesDone = Len(jp2_files)
    /\ \A n \in PolygonOutputNames : n \in DOMAIN wsfiles /\ wsfiles[n].image = ImagesDone

\* C18: every name a statement reads is given to the script from outside or
\* was written by an earlier statement of the same pass of the loop.
C18_ReadsAreInputsOrWrittenEarlier ==
    \A r \in DOMAIN lastop.sources :
        r \in ExternalInputs \/ lastop.sources[r] = lastop.image

(***************************************************************************)
(* How the evaluation ends (checked under SpecEval)                        *)
(***************************************************************************)
\* C19: once both counts are taken, no polygon intersects a point exactly
\* when no point intersects a polygon: TP = 0 if and only if TP_2 = 0.
C19_BothViewsEmptyTogether == AfterCountingPoints => (TP = 0 <=> TP_2 = 0)

\* Polygons and points exist and none of them intersect.
C19_Witness ==
    /\ AfterCountingPoints
    /\ All_polygons > 0 /\ All_points > 0
    /\ TP = 0 /\ TP_2 = 0

CountsPrinted == (IF script = "zoom" THEN <<"Image Label">> ELSE <<>>) \o CountLabels
FirstTripleSteps == {"printcounts", "precision", "recall", "f1"}

\* C20: once the counts are taken, the script reaches its end, with both
\* triples printed, exactly when TP > 0; with TP = 0 it stops with a
\* division-by-zero error while computing the first triple, after the six
\* counts were printed and before any metric is printed.
C20_EndsIffMatched ==
    AfterCountingPoints =>
        /\ (spc \notin {"done", "error"} => ENABLED NextEval)
        /\ (spc = "done" => TP > 0 /\ printed = CountsPrinted \o TripleLabels)
        /\ (TP > 0 => spc /= "error")
        /\ (TP = 0 => spc \in FirstTripleSteps \cup {"error"})
        /\ (TP = 0 /\ spc = "error" =>
              /\ serr = "ZeroDivisionError"
              /\ printed = CountsPrinted
              /\ f1_score = None
              /\ precision_2 = None /\ recall_2 = None /\ f1_score_2 = None)

\* No polygon matched, some polygons and points exist: precision and recall
\* were computed as 0 and the F1 line divided by zero.
C20_Witness ==
    /\ spc = "error"
    /\ TP = 0 /\ FP > 0 /\ FN > 0
    /\ IsZero(precision) /\ IsZero(recall)
    /\ f1_score = None
    /\ printed = CountsPrinted

(***************************************************************************)
(* Check-out and check-in of the extension (checked under Spec)            *)
(***************************************************************************)
DeleteEvents == {i \in DOMAIN ext.cleanup : ext.cleanup[i] = "Delete"}

\* C21: the extension is checked in exactly when it was checked out.  While
\* execute runs no check-in precedes the check-out; once execute has ended
\* after a check-out, whether it returned or raised, exactly one check-in was
\* attempted, after all the Delete calls of the cleanup; once it has ended
\* by raising before the check-out, no cleanup call was made at all.
C21_CheckInIffCheckedOut ==
    /\ ext.checkouts <= 1
    /\ ext.checkins <= ext.checkouts
    /\ (~Returned => ext.checkins = 0 /\ ext.cleanup = <<>>)
    /\ (Returned /\ PassedValidation) =>
          /\ ext.checkins = 1
          /\ CheckIns(ext.cleanup) = 1
          /\ ext.cleanup[Len(ext.cleanup)] = "CheckInExtension"
          /\ DeleteEvents = 1..(Len(ext.cleanup) - 1)
          /\ Cardinality(DeleteEvents) = Cardinality(DOMAIN deletion.calls)
    /\ (Returned /\ ~PassedValidation) =>
          /\ pc = "raised"
          /\ ext.checkins = 0
          /\ ext.cleanup = <<>>
          /\ ~ext.out

\* An unexpected exception in a stage, after a check-out: two or more Delete
\* calls, one of which failed, then the single check-in.
C21_Witness ==
    /\ pc = "raised"
    /\ raised.type = "Exception"
    /\ raised.stage = 7
    /\ ext.checkouts = 1 /\ ext.checkins = 1
    /\ Len(ext.cleanup) >= 3
    /\ deletion.failed /= {}

====
